---------------------------- MODULE Spec2Model ----------------------------
(***************************************************************************)
(* A model of the JSON/JSONL translation tool: the field-path addressing   *)
(* engine of main.py (_parse_path, _extract, _set_by_address,              *)
(* _collect_all_string_paths), the batch pipeline translate_records, the   *)
(* retrying service wrapper translate_batch of translate/client.py, the   *)
(* per-file loop of main(), and the judge call judge_batch of              *)
(* translate/judge.py under its own retry policy.                          *)
(*                                                                         *)
(* JSON values are records of one uniform shape                            *)
(*   [t |-> tag, s |-> string, keys |-> address components, items |-> ..]  *)
(* with tag "str", "num", "null", "list", "dict" (or "error" for a raised  *)
(* exception).  A string is a TLA+ string, a mapping key and a path are    *)
(* sequences of one-character strings, since the path parser works on      *)
(* characters.                                                             *)
(***************************************************************************)
EXTENDS Integers, Sequences, FiniteSets, TLC

\* ------------------------------------------------------------------------
\* Bounds of the model
\* ------------------------------------------------------------------------

\* longest generated sequence (a JSON list) in a record under test
MaxLen == 2

\* longest generated path expression, in pieces (a key character, ".",
\* "[*]" or a lone "[")
MaxPathParts == 3

\* ------------------------------------------------------------------------
\* JSON values
\* ------------------------------------------------------------------------

\* an address component: a mapping key (a str) or a sequence index (an int)
KeyC(name) == [k |-> "key", name |-> name, idx |-> 0]

IdxC(i) == [k |-> "idx", name |-> <<>>, idx |-> i]

Str(s) == [t |-> "str", s |-> s, keys |-> <<>>, items |-> <<>>]

Num == [t |-> "num", s |-> "5", keys |-> <<>>, items |-> <<>>]

Null == [t |-> "null", s |-> "", keys |-> <<>>, items |-> <<>>]

List(items) == [t |-> "list", s |-> "", keys |-> <<>>, items |-> items]

\* a mapping, in insertion order: names[i] is the key of items[i]
Dict(names, items) ==
    [t |-> "dict", s |-> "",
     keys |-> [i \in 1..Len(names) |-> KeyC(names[i])], items |-> items]

\* a raised exception, named by its Python class
Raised(exc) == [t |-> "error", s |-> exc, keys |-> <<>>, items |-> <<>>]

IsError(v) == v.t = "error"

\* the position of address component c among the keys of mapping obj, 0 if absent
KeyPos(obj, c) ==
    IF \E i \in 1..Len(obj.keys) : obj.keys[i] = c
    THEN CHOOSE i \in 1..Len(obj.keys) : obj.keys[i] = c
    ELSE 0

\* ------------------------------------------------------------------------
\* Path parsing: _parse_path
\* ------------------------------------------------------------------------

\* the characters the second alternative of the regular expression excludes
IsSep(c) == c \in {".", "[", "]"}

\* the index just past the longest run of non-separator characters from i
RECURSIVE RunEnd(_, _)
RunEnd(path, i) ==
    IF i <= Len(path) /\ ~IsSep(path[i]) THEN RunEnd(path, i + 1) ELSE i

\* re.findall(r'\[\*\]|[^\.\[\]]+', path) scanning from position i: the
\* non-overlapping matches, left to right, first alternative first
RECURSIVE FindAll(_, _)
FindAll(path, i) ==
    IF i > Len(path) THEN <<>>
    ELSE IF i + 2 <= Len(path)
            /\ path[i] = "[" /\ path[i + 1] = "*" /\ path[i + 2] = "]"
         THEN <<SubSeq(path, i, i + 2)>> \o FindAll(path, i + 3)
    ELSE IF ~IsSep(path[i])
         THEN <<SubSeq(path, i, RunEnd(path, i) - 1)>>
                  \o FindAll(path, RunEnd(path, i))
    ELSE FindAll(path, i + 1)

\* a token: the wildcard (None in the source) or a literal key
WildTok == [wild |-> TRUE, key |-> <<>>]

KeyTok(name) == [wild |-> FALSE, key |-> name]

ParsePath(path) ==
    LET segs == FindAll(path, 1)
    IN  [i \in 1..Len(segs) |->
            IF segs[i] = <<"[", "*", "]">> THEN WildTok ELSE KeyTok(segs[i])]

\* ------------------------------------------------------------------------
\* Traversal: _extract
\* ------------------------------------------------------------------------

RECURSIVE Flatten(_)
Flatten(ss) == IF ss = <<>> THEN <<>> ELSE Head(ss) \o Flatten(Tail(ss))

\* walks that differ from _extract in one respect each:
\* "descending" visits the elements of a list from the last to the first,
\* "any_leaf" appends whatever value the path ends at, "unguarded" looks a
\* key up without the isinstance and membership tests and reports the
\* failed lookup in place of a match
RECURSIVE ExtractVariant(_, _, _, _)
ExtractVariant(obj, tokens, address, how) ==
    IF tokens = <<>>
    THEN IF how = "any_leaf" \/ (obj.t = "str" /\ obj.s # "")
         THEN <<[addr |-> address, text |-> obj.s]>>
         ELSE <<>>
    ELSE LET token == Head(tokens)
             rest  == Tail(tokens)
             n     == Len(obj.items)
         IN  IF token.wild
             THEN IF obj.t = "list"
                  THEN Flatten([i \in 1..n |->
                           LET j == IF how = "descending" THEN n + 1 - i ELSE i
                           IN  ExtractVariant(obj.items[j], rest,
                                   Append(address, IdxC(j - 1)), how)])
                  ELSE <<>>
             ELSE IF obj.t = "dict" /\ KeyPos(obj, KeyC(token.key)) # 0
                  THEN ExtractVariant(obj.items[KeyPos(obj, KeyC(token.key))],
                           rest, Append(address, KeyC(token.key)), how)
                  ELSE IF how = "unguarded"
                       THEN <<[addr |-> address,
                               text |-> IF obj.t = "dict" THEN "KeyError"
                                        ELSE "TypeError"]>>
                       ELSE <<>>

ExtractDescending(obj, tokens, address) ==
    ExtractVariant(obj, tokens, address, "descending")

ExtractAnyLeaf(obj, tokens, address) ==
    ExtractVariant(obj, tokens, address, "any_leaf")

ExtractUnguarded(obj, tokens, address) ==
    ExtractVariant(obj, tokens, address, "unguarded")

\* the (address, text) pairs _extract appends to results, in order
RECURSIVE Extract(_, _, _)
Extract(obj, tokens, address) ==
    IF tokens = <<>>
    THEN IF obj.t = "str" /\ obj.s # ""
         THEN <<[addr |-> address, text |-> obj.s]>>
         ELSE <<>>
    ELSE LET token == Head(tokens)
             rest  == Tail(tokens)
         IN  IF token.wild
             THEN IF obj.t = "list"
                  THEN Flatten([i \in 1..Len(obj.items) |->
                           Extract(obj.items[i], rest,
                                   Append(address, IdxC(i - 1)))])
                  ELSE <<>>
             ELSE IF obj.t = "dict" /\ KeyPos(obj, KeyC(token.key)) # 0
                  THEN Extract(obj.items[KeyPos(obj, KeyC(token.key))],
                               rest, Append(address, KeyC(token.key)))
                  ELSE <<>>

\* ------------------------------------------------------------------------
\* Write-back: _set_by_address
\* ------------------------------------------------------------------------

\* the 1-based position Python's list index i denotes in a sequence of
\* length n (a negative index counts from the end), 0 if out of range
ListPos(n, i) ==
    IF 0 <= i /\ i < n THEN i + 1
    ELSE IF i < 0 /\ 0 - n <= i THEN n + i + 1
    ELSE 0

\* cur[key] as an expression
GetItem(cur, c) ==
    CASE cur.t = "dict" ->
             IF KeyPos(cur, c) # 0 THEN cur.items[KeyPos(cur, c)]
             ELSE Raised("KeyError")
      [] cur.t = "list" ->
             IF c.k # "idx" THEN Raised("TypeError")
             ELSE IF ListPos(Len(cur.items), c.idx) # 0
                  THEN cur.items[ListPos(Len(cur.items), c.idx)]
                  ELSE Raised("IndexError")
      [] cur.t = "str" ->
             \* a one-character str; which character never matters, as a str
             \* supports no item assignment
             IF c.k # "idx" THEN Raised("TypeError")
             ELSE IF ListPos(Len(cur.s), c.idx) # 0 THEN Str("?")
                  ELSE Raised("IndexError")
      [] OTHER -> Raised("TypeError")

\* an assignment that deletes the key of a mapping and inserts it anew, so
\* that the key moves to the end of the mapping
SetItemReinserted(cur, c, v) ==
    CASE cur.t = "dict" ->
             LET pos  == KeyPos(cur, c)
                 keep == [i \in 1..(Len(cur.keys) - 1) |->
                             IF i < pos THEN i ELSE i + 1]
             IN  IF pos # 0
                 THEN [cur EXCEPT
                          !.keys = Append([i \in DOMAIN keep |->
                                              cur.keys[keep[i]]], c),
                          !.items = Append([i \in DOMAIN keep |->
                                               cur.items[keep[i]]], v)]
                 ELSE [cur EXCEPT !.keys = Append(@, c), !.items = Append(@, v)]
      [] cur.t = "list" ->
             IF c.k # "idx" THEN Raised("TypeError")
             ELSE IF ListPos(Len(cur.items), c.idx) # 0
                  THEN [cur EXCEPT !.items[ListPos(Len(cur.items), c.idx)] = v]
                  ELSE Raised("IndexError")
      [] OTHER -> Raised("TypeError")

\* cur[key] = v, as the value of cur afterwards
SetItem(cur, c, v) ==
    CASE cur.t = "dict" ->
             IF KeyPos(cur, c) # 0
             THEN [cur EXCEPT !.items[KeyPos(cur, c)] = v]
             ELSE [cur EXCEPT !.keys = Append(@, c), !.items = Append(@, v)]
      [] cur.t = "list" ->
             IF c.k # "idx" THEN Raised("TypeError")
             ELSE IF ListPos(Len(cur.items), c.idx) # 0
                  THEN [cur EXCEPT !.items[ListPos(Len(cur.items), c.idx)] = v]
                  ELSE Raised("IndexError")
      [] OTHER -> Raised("TypeError")

\* _set_by_address assigning at the first component of the address instead
\* of descending to the last one
SetByAddressAtFirst(obj, address, value) ==
    IF address = <<>> THEN Raised("IndexError")
    ELSE SetItem(obj, address[1], Str(value))

\* obj after _set_by_address(obj, address, value), or the exception raised.
\* The source mutates obj in place; records are trees (they come from
\* json.load or copy.deepcopy), so the mutation is the functional update.
RECURSIVE SetByAddress(_, _, _)
SetByAddress(obj, address, value) ==
    IF address = <<>> THEN Raised("IndexError")
    ELSE IF Len(address) = 1 THEN SetItem(obj, address[1], Str(value))
    ELSE LET child == GetItem(obj, address[1])
         IN  IF IsError(child) THEN child
             ELSE LET done == SetByAddress(child, Tail(address), value)
                  IN  IF IsError(done) THEN done
                      ELSE SetItem(obj, address[1], done)

\* ------------------------------------------------------------------------
\* Auto-discovery: _collect_all_string_paths
\* ------------------------------------------------------------------------

\* a walk that reports the path of every value that is no mapping: numbers
\* and sequences as well as strings
RECURSIVE CollectAllLeafPaths(_, _)
CollectAllLeafPaths(obj, prefix) ==
    Flatten([i \in 1..Len(obj.keys) |->
        LET full == IF prefix # <<>>
                    THEN prefix \o <<".">> \o obj.keys[i].name
                    ELSE obj.keys[i].name
            v    == obj.items[i]
        IN  IF v.t = "dict" THEN CollectAllLeafPaths(v, full)
            ELSE <<full>>])

\* the dotted paths of the str values reachable through mappings only,
\* in mapping order; a key is str(k) of a JSON key, its characters
RECURSIVE CollectAllStringPaths(_, _)
CollectAllStringPaths(obj, prefix) ==
    Flatten([i \in 1..Len(obj.keys) |->
        LET full == IF prefix # <<>>
                    THEN prefix \o <<".">> \o obj.keys[i].name
                    ELSE obj.keys[i].name
            v    == obj.items[i]
        IN  IF v.t = "str" THEN <<full>>
            ELSE IF v.t = "dict" THEN CollectAllStringPaths(v, full)
            ELSE <<>>])


\* ------------------------------------------------------------------------
\* Task collection and batching: translate_records, steps 1 and 3
\* ------------------------------------------------------------------------

\* the paths evaluated on one record: the configured fields, or in
\* auto-detect mode (no field configured) the discovered string paths
PathsOf(record, fields) ==
    IF Len(fields) = 0 THEN CollectAllStringPaths(record, <<>>) ELSE fields

\* the tasks of the record with index recIdx (0-based, from enumerate)
TasksOfRecord(recIdx, record, fields) ==
    LET paths == PathsOf(record, fields)
    IN  Flatten([p \in 1..Len(paths) |->
            LET hits == Extract(record, ParsePath(paths[p]), <<>>)
            IN  [h \in 1..Len(hits) |->
                    [rec |-> recIdx, addr |-> hits[h].addr,
                     text |-> hits[h].text]]])

\* the task loops nested the other way round: configured paths outer loop,
\* records inner loop
CollectTasksPathsOuter(recs, fields) ==
    IF Len(fields) = 0
    THEN Flatten([r \in 1..Len(recs) |-> TasksOfRecord(r - 1, recs[r], fields)])
    ELSE Flatten([p \in 1..Len(fields) |->
             Flatten([r \in 1..Len(recs) |->
                 TasksOfRecord(r - 1, recs[r], <<fields[p]>>)])])

\* tasks: records outer loop, paths inner loop, hits in traversal order
CollectTasks(recs, fields) ==
    Flatten([r \in 1..Len(recs) |-> TasksOfRecord(r - 1, recs[r], fields)])

TextsOnly(tsks) == [k \in 1..Len(tsks) |-> tsks[k].text]

Min(a, b) == IF a <= b THEN a ELSE b

\* [texts[s: s + size] for s in range(0, len(texts), size)] for size # 0;
\* a negative step gives an empty range (range raises for size = 0)
Batches(texts, size) ==
    IF size > 0
    THEN [k \in 1..((Len(texts) + size - 1) \div size) |->
             SubSeq(texts, (k - 1) * size + 1, Min(k * size, Len(texts)))]
    ELSE <<>>

\* ------------------------------------------------------------------------
\* The translation client: translate_batch
\* ------------------------------------------------------------------------

\* a stop condition one attempt late
MAX_ATTEMPTS_LATE == 4 + 1

\* stop_after_attempt(4)
MAX_ATTEMPTS == 4

\* wait_exponential(multiplier=1, min=2, max=30)
WAIT_MULTIPLIER == 1

WAIT_MIN == 2

WAIT_MAX == 30

\* the seconds tenacity sleeps after failed attempt n
WaitExponential(n) ==
    LET exp == WAIT_MULTIPLIER * (2 ^ (n - 1))
    IN  IF exp < WAIT_MIN THEN WAIT_MIN
        ELSE IF exp > WAIT_MAX THEN WAIT_MAX ELSE exp

\* str(t) of an element of the parsed array
PyStr(v) ==
    CASE v.t = "str" -> v.s
      [] v.t = "num" -> v.s
      [] v.t = "null" -> "None"
      [] OTHER -> "repr"

\* an event of one translate_batch invocation: a request sent to the
\* service (with or without the temperature parameter) or a backoff sleep
CallEv(texts, withTemp) ==
    [ev |-> "call", temp |-> withTemp, texts |-> texts, secs |-> 0]

WaitEv(secs) == [ev |-> "wait", temp |-> FALSE, texts |-> <<>>, secs |-> secs]

\* the service answered the request before with a BadRequestError whose
\* message mentions the temperature
RejectEv == [ev |-> "rejected", temp |-> TRUE, texts |-> <<>>, secs |-> 0]

\* what the body of translate_batch does in one attempt
Returned(value, calls) ==
    [ok |-> TRUE, value |-> value, exc |-> "", calls |-> calls, client |-> TRUE]

Raises(exc, calls, client) ==
    [ok |-> FALSE, value |-> <<>>, exc |-> exc, calls |-> calls,
     client |-> client]

\* the message content of a response, after strip() and the removal of a
\* markdown fence: text that is no JSON, a JSON value that is no array, or
\* a JSON array
NotJsonBody == [kind |-> "notjson", items |-> <<>>]

ObjectBody == [kind |-> "object", items |-> <<>>]

ArrayBody(items) == [kind |-> "array", items |-> items]

\* the validation without the comparison of the lengths
ParseResponseUnsized(texts, body, calls) ==
    IF body.kind = "notjson"
    THEN Raises("ValueError: non-JSON output", calls, TRUE)
    ELSE IF body.kind # "array"
    THEN Raises("ValueError: expected a JSON array", calls, TRUE)
    ELSE Returned([i \in 1..Len(body.items) |-> PyStr(body.items[i])], calls)

\* the parsing and validation of a response: lines 101 to 124
ParseResponse(texts, body, calls) ==
    IF body.kind = "notjson"
    THEN Raises("ValueError: non-JSON output", calls, TRUE)
    ELSE IF body.kind # "array"
    THEN Raises("ValueError: expected a JSON array", calls, TRUE)
    ELSE IF Len(body.items) # Len(texts)
    THEN Raises("ValueError: translation count mismatch", calls, TRUE)
    ELSE Returned([i \in 1..Len(body.items) |-> PyStr(body.items[i])], calls)

\* a body that lets the temperature rejection escape like any other
\* bad-request error, with no second request
TranslateBatchBodyNoFallback(texts, haveClient, haveKey, o) ==
    IF texts = <<>> THEN [Returned(<<>>, <<>>) EXCEPT !.client = haveClient]
    ELSE IF ~haveClient /\ ~haveKey
    THEN Raises("EnvironmentError", <<>>, FALSE)
    ELSE CASE o.first = "body" ->
                  ParseResponse(texts, o.body, <<CallEv(texts, TRUE)>>)
           [] o.first = "bad_request_temperature" ->
                  Raises("BadRequestError", <<CallEv(texts, TRUE), RejectEv>>,
                         TRUE)
           [] o.first = "bad_request_other" ->
                  Raises("BadRequestError", <<CallEv(texts, TRUE)>>, TRUE)
           [] OTHER -> Raises("APIError", <<CallEv(texts, TRUE)>>, TRUE)

\* a body without the early return for an empty list
TranslateBatchBodyNoEarlyReturn(texts, haveClient, haveKey, o) ==
    IF ~haveClient /\ ~haveKey
    THEN Raises("EnvironmentError", <<>>, FALSE)
    ELSE CASE o.first = "body" ->
                  ParseResponse(texts, o.body, <<CallEv(texts, TRUE)>>)
           [] o.first = "bad_request_temperature" ->
                  IF o.second = "body"
                  THEN ParseResponse(texts, o.body,
                           <<CallEv(texts, TRUE), RejectEv,
                             CallEv(texts, FALSE)>>)
                  ELSE Raises("APIError",
                           <<CallEv(texts, TRUE), RejectEv,
                             CallEv(texts, FALSE)>>, TRUE)
           [] o.first = "bad_request_other" ->
                  Raises("BadRequestError", <<CallEv(texts, TRUE)>>, TRUE)
           [] OTHER -> Raises("APIError", <<CallEv(texts, TRUE)>>, TRUE)

\* one run of the body of translate_batch on texts, when the process holds
\* a client or not (haveClient), the API key is set or not (haveKey) and
\* the service answers as outcome o says
TranslateBatchBody(texts, haveClient, haveKey, o) ==
    IF texts = <<>> THEN [Returned(<<>>, <<>>) EXCEPT !.client = haveClient]
    ELSE IF ~haveClient /\ ~haveKey
    THEN Raises("EnvironmentError", <<>>, FALSE)
    ELSE CASE o.first = "body" ->
                  ParseResponse(texts, o.body, <<CallEv(texts, TRUE)>>)
           [] o.first = "bad_request_temperature" ->
                  IF o.second = "body"
                  THEN ParseResponse(texts, o.body,
                           <<CallEv(texts, TRUE), RejectEv,
                             CallEv(texts, FALSE)>>)
                  ELSE Raises("APIError",
                           <<CallEv(texts, TRUE), RejectEv,
                             CallEv(texts, FALSE)>>, TRUE)
           [] o.first = "bad_request_other" ->
                  Raises("BadRequestError", <<CallEv(texts, TRUE)>>, TRUE)
           [] OTHER -> Raises("APIError", <<CallEv(texts, TRUE)>>, TRUE)

\* ------------------------------------------------------------------------
\* The judge settings of config.py
\* ------------------------------------------------------------------------

\* USE_JUDGE = True
USE_JUDGE == TRUE

\* MAX_JUDGE_RETRIES = 1: fix attempts per failed translation
MAX_JUDGE_RETRIES == 1

\* ------------------------------------------------------------------------
\* The judge client: judge_batch of translate/judge.py
\* ------------------------------------------------------------------------

\* most pairs handed to judge_batch
MaxPairs == 2

\* the attempt at which the model stops following a judge call whose
\* failures are all retried
MaxJudgeAttempts == 5

\* _SmartStop._limit = stop_after_attempt(3)
JUDGE_STOP_AFTER == 3

\* _SmartWait._exp = wait_exponential(multiplier=1, min=2, max=10)
JUDGE_WAIT_MULTIPLIER == 1

JUDGE_WAIT_MIN == 2

JUDGE_WAIT_MAX == 10

\* _parse_retry_delay(exc, default=30.0)
DEFAULT_RETRY_DELAY == 30

\* an exception of an attempt: its class, the HTTP code of an API error
\* and the delay its message suggests ("retry ... <n>s"), 0 if none
Exception(class, code, hint) == [class |-> class, code |-> code, hint |-> hint]

NoException == Exception("", 0, 0)

\* a test that takes every client and server error for a rate limit
IsAnyApiError(e) == e.class \in {"ClientError", "ServerError"}

_is_infinite_retry(e) ==
    \/ e.class = "ClientError" /\ e.code = 429
    \/ e.class = "ServerError" /\ e.code = 503

_parse_retry_delay(e) == IF e.hint # 0 THEN e.hint ELSE DEFAULT_RETRY_DELAY

\* _SmartWait.__call__ after failed attempt n
_SmartWait(n, e) ==
    IF _is_infinite_retry(e) THEN _parse_retry_delay(e)
    ELSE LET exp == JUDGE_WAIT_MULTIPLIER * (2 ^ (n - 1))
         IN  IF exp < JUDGE_WAIT_MIN THEN JUDGE_WAIT_MIN
             ELSE IF exp > JUDGE_WAIT_MAX THEN JUDGE_WAIT_MAX ELSE exp

\* _SmartStop.__call__ after failed attempt n
_SmartStop(n, e) ==
    IF _is_infinite_retry(e) THEN FALSE ELSE n >= JUDGE_STOP_AFTER

\* an entry of the array the judge sent: a mapping with the fields it
\* holds, or a value of another kind
Verdict(kind, flds, ok, feedback) ==
    [kind |-> kind, fields |-> flds, ok |-> ok, feedback |-> feedback]

VerdictOk == Verdict("dict", {"ok"}, "true", "")

VerdictRejected == Verdict("dict", {"ok", "feedback"}, "false", "too literal")

VerdictNoOk == Verdict("dict", {"feedback"}, "", "too literal")

VerdictNoDict == Verdict("str", {}, "", "")

\* {"ok": False, "feedback": f"Malformed verdict: {v}"}
MalformedVerdict ==
    Verdict("dict", {"ok", "feedback"}, "false", "Malformed verdict")

\* a normalisation that drops the malformed entries
NormaliseDropping(verdicts) ==
    SelectSeq(verdicts, LAMBDA v : v.kind = "dict" /\ "ok" \in v.fields)

\* lines 196 to 204
Normalise(verdicts) ==
    [i \in 1..Len(verdicts) |->
        IF verdicts[i].kind # "dict" \/ "ok" \notin verdicts[i].fields
        THEN MalformedVerdict
        ELSE verdicts[i]]

JudgeReturned(value) == [ok |-> TRUE, value |-> value, exc |-> NoException]

JudgeRaised(e) == [ok |-> FALSE, value |-> <<>>, exc |-> e]

\* one run of the body of judge_batch on n pairs, the key set or not, the
\* service answering as o says: an API error, or a response text
JudgeBody(n, haveKey, o) ==
    IF ~haveKey THEN JudgeRaised(Exception("EnvironmentError", 0, 0))
    ELSE IF o.kind = "error" THEN JudgeRaised(o.exc)
    ELSE IF o.kind = "notjson"
    THEN JudgeRaised(Exception("ValueError: non-JSON output", 0, 0))
    ELSE IF o.kind # "array"
    THEN JudgeRaised(Exception("ValueError: expected a JSON array", 0, 0))
    ELSE IF Len(o.items) # n
    THEN JudgeRaised(Exception("ValueError: verdict count mismatch", 0, 0))
    ELSE JudgeReturned(Normalise(o.items))

\* ------------------------------------------------------------------------
\* File input and output: read_records, write_records
\* ------------------------------------------------------------------------

\* an input file: a single JSON object, a JSON array of objects, JSON
\* Lines, or text that is no JSON at all.  The JSON shapes are laid out on
\* several lines, as write_records lays them out (indent=2).
FileOf(shape, recs) == [shape |-> shape, records |-> recs]

ReadOk(recs, jsonl) == [ok |-> TRUE, records |-> recs, is_jsonl |-> jsonl, exc |-> ""]

ReadFails(exc) == [ok |-> FALSE, records |-> <<>>, is_jsonl |-> FALSE, exc |-> exc]

ReadRecords(file, file_format) ==
    IF file_format = "jsonl"
    THEN IF file.shape = "jsonl" THEN ReadOk(file.records, TRUE)
         ELSE IF file.shape = "array" /\ file.records = <<>>
              \* the one line "[]" is a JSON value: one record, an empty list
              THEN ReadOk(<<List(<<>>)>>, TRUE)
         ELSE ReadFails("ValueError: invalid JSON on line")
    ELSE CASE file.shape = "object" -> ReadOk(file.records, FALSE)
           [] file.shape = "array" -> ReadOk(file.records, FALSE)
           [] file.shape = "jsonl" /\ Len(file.records) = 1 ->
                  \* one line holding one object is a JSON document
                  ReadOk(file.records, FALSE)
           [] OTHER -> ReadFails("JSONDecodeError")

\* what write_records leaves in the output file
WriteRecords(recs, jsonl, single) ==
    IF jsonl THEN FileOf("jsonl", recs)
    ELSE IF single THEN FileOf("object", <<recs[1]>>)
    ELSE FileOf("array", recs)

\* ------------------------------------------------------------------------
\* Inputs of the path engine
\* ------------------------------------------------------------------------

KA == <<"a">>

KB == <<"b">>

SeqsUpTo(S, n) == UNION {[1..m -> S] : m \in 0..n}

Leaves == {Str("x"), Str(""), Num}

Inner == Leaves \cup {Dict(<<KB>>, <<l>>) : l \in {Str("y"), Str("")}}
                \cup {List(<<Str("z")>>)}

Mid == Inner \cup {List(s) : s \in SeqsUpTo(Inner, MaxLen)}

\* {"a": [[{"b":"x"},{"b":"y"}], [{"b":"z"}]]}
NestedSample ==
    Dict(<<KA>>, <<List(<<List(<<Dict(<<KB>>, <<Str("x")>>),
                                 Dict(<<KB>>, <<Str("y")>>)>>),
                          List(<<Dict(<<KB>>, <<Str("z")>>)>>)>>)>>)

PathRecords ==
    {Dict(<<KA>>, <<v>>) : v \in Mid}
        \cup {Dict(<<KA, KB>>, <<v, w>>) : v \in Inner, w \in {Str("y"), Null}}
        \cup {Dict(<<>>, <<>>), NestedSample}

\* the pieces a generated path expression is made of
PathPieces == {<<"a">>, <<"b">>, <<".">>, <<"[", "*", "]">>, <<"[">>}

\* "a[*][*].b", the shape of config.TRANSLATE_FIELDS
NestedPath == <<"a", "[", "*", "]", "[", "*", "]", ".", "b">>

PathExprs ==
    {Flatten(ps) : ps \in SeqsUpTo(PathPieces, MaxPathParts)} \cup {NestedPath}

\* ------------------------------------------------------------------------
\* Inputs of a run of main()
\* ------------------------------------------------------------------------

\* most input files a data directory holds
MaxFiles == 2

\* largest --batch-size tried
MaxBatchSize == 2

RecAX == Dict(<<KA>>, <<Str("x")>>)

RecAB == Dict(<<KA, KB>>, <<Str("x"), Dict(<<KA>>, <<Str("y")>>)>>)

RecList == Dict(<<KA>>, <<List(<<Str("x"), Str(""), Str("y")>>)>>)

RecAY == Dict(<<KA>>, <<Str("y")>>)

RecNest == Dict(<<KB>>, <<Dict(<<KA>>, <<Str("x")>>)>>)

\* a record that is a bare string: an element of a top-level JSON array
RecText == Str("x")

\* the files a data directory may hold, in the order of their names
Catalogue ==
    << FileOf("object", <<RecAX>>),
       FileOf("array", <<RecAX>>),
       FileOf("array", <<RecAB, RecList>>),
       FileOf("jsonl", <<RecAY, RecNest>>),
       FileOf("corrupt", <<>>),
       FileOf("array", <<>>),
       FileOf("jsonl", <<RecList>>),
       FileOf("array", <<RecText>>) >>

\* sorted(data_dir.glob("*.json")): the files present, in name order
RECURSIVE SortedSeq(_)
SortedSeq(S) ==
    IF S = {} THEN <<>>
    ELSE LET m == CHOOSE x \in S : \A y \in S : x <= y
         IN  <<m>> \o SortedSeq(S \ {m})

\* the data directories tried: up to MaxFiles files that stand next to one
\* another in the catalogue
Directories ==
    {SortedSeq(S) :
        S \in {T \in {a..b : a \in 1..Len(Catalogue), b \in 0..Len(Catalogue)} :
                  Cardinality(T) <= MaxFiles}}

\* --fields / config.TRANSLATE_FIELDS: none (auto-detect), "a",
\* "b.a" with "a" and "a[*]", "a" twice, and "." (a path of no token)
FieldConfigs ==
    { <<>>,
      <<KA>>,
      <<KB \o <<".">> \o KA, KA, KA \o <<"[", "*", "]">>>>,
      <<KA, KA>>,
      <<<<".">>>> }

BatchSizes == (0 - 1)..MaxBatchSize

\* the strings the service may answer with for source text t: the text
\* itself or another string
Answers(t) == {Str(t), Str("T")}

RECURSIVE ArraysFor(_)
ArraysFor(texts) ==
    IF texts = <<>> THEN {<<>>}
    ELSE {<<a>> \o rest : a \in Answers(Head(texts)),
                          rest \in ArraysFor(Tail(texts))}

\* an array of the right length whose elements are numbers, not strings
NumsFor(texts) == [i \in 1..Len(texts) |-> Num]

\* the arrays of a wrong length: one element short, one element long
EchoOf(texts) == [i \in 1..Len(texts) |-> Str(texts[i])]

MisSized(texts) ==
    {SubSeq(EchoOf(texts), 1, Len(texts) - 1), Append(EchoOf(texts), Str("T"))}

Bodies(texts) ==
    {NotJsonBody, ObjectBody}
        \cup {ArrayBody(a) : a \in ArraysFor(texts) \cup {NumsFor(texts)}
                                       \cup MisSized(texts)}

Outcome(first, second, body) == [first |-> first, second |-> second, body |-> body]

\* how the service may answer the request(s) of one attempt
Outcomes(texts) ==
    {Outcome("body", "none", b) : b \in Bodies(texts)}
        \cup {Outcome("bad_request_temperature", "body", b) : b \in Bodies(texts)}
        \cup {Outcome("bad_request_temperature", "api_error", NotJsonBody),
              Outcome("bad_request_other", "none", NotJsonBody),
              Outcome("api_error", "none", NotJsonBody)}

\* ------------------------------------------------------------------------
\* State
\* ------------------------------------------------------------------------

VARIABLES
    prec,    \* path engine: the record given to _extract
    ppath,   \* path engine: the path expression
    ppc,     \* path engine: "start", then "extracted"
    phits,   \* path engine: the results list _extract filled
    pidx,    \* path engine: the next hit to write back
    pobj,    \* path engine: the record _set_by_address is applied to
    dpaths,  \* auto-detect: the paths _collect_all_string_paths returned
    json_files,       \* main: the input files, as indices of Catalogue
    fields,           \* main: the field paths
    batch_size,       \* args.batch_size
    file_format,      \* args.file_format
    api_key,          \* whether OPENAI_API_KEY is set
    client,           \* whether client._client is constructed
    pc,               \* where main() stands
    fi,               \* main: position of json_file in json_files
    records,          \* main: the records read from the file
    is_jsonl,         \* main: is_jsonl of the file
    tasks,            \* translate_records: tasks
    translated_records, \* translate_records: the deep copy written to
    shared,           \* whether translated_records is the very list records is
    all_translations, \* translate_records: all_translations
    bi,               \* translate_records: position of batch in batches
    attempt,          \* tenacity: the number of the attempt under way
    wi,               \* translate_records: position in the write-back zip
    batchLog,         \* requests and sleeps of the translate_batch call under way
    sent,             \* the texts of the batches translate_batch returned for
    outputs,          \* the output file written for each input file
    exc,              \* the exception that ended the process, "" if none
    judgeCalls,       \* the calls main() made to judge.judge_batch
    repairCalls,      \* the calls main() made to translate_with_feedback
    gemini_key,       \* judge_batch: whether GEMINI_API_KEY is set
    jpairs,           \* judge_batch: the (original, translation) pairs
    jpc,              \* judge_batch: "call", then "returned" or "raised"
    jattempt,         \* tenacity: the number of the judge attempt under way
    jfailed,          \* judge_batch: the failed attempts, with their sleeps
    jresponse,        \* judge_batch: verdicts, the array the service sent
    jverdicts,        \* judge_batch: the list returned
    jexc,             \* judge_batch: the exception handed to the caller
    btexts,           \* translate_batch called on its own: texts
    bkey,             \* translate_batch: whether OPENAI_API_KEY is set
    bclient,          \* translate_batch: whether client._client is constructed
    bpc,              \* translate_batch: "call", then "returned" or "raised"
    battempt,         \* tenacity: the number of the attempt under way
    blog,             \* translate_batch: the requests and sleeps of the call
    bvalue,           \* translate_batch: the list returned
    bexc              \* translate_batch: the exception handed to the caller

pathVars == <<prec, ppath, ppc, phits, pidx, pobj, dpaths>>

configVars == <<json_files, fields, batch_size, file_format, api_key>>

fileVars == <<records, is_jsonl, tasks, translated_records, shared,
              all_translations, bi, attempt, wi, batchLog, sent>>

judgeVars == <<judgeCalls, repairCalls>>

mainVars == <<configVars, client, pc, fi, fileVars, outputs, exc, judgeVars>>

judgeCallVars == <<gemini_key, jpairs, jpc, jattempt, jfailed, jresponse,
                   jverdicts, jexc>>

batchCallVars == <<btexts, bkey, bclient, bpc, battempt, blog, bvalue, bexc>>

vars == <<pathVars, mainVars, judgeCallVars, batchCallVars>>

NoOutput == [written |-> FALSE, file |-> FileOf("none", <<>>)]

\* the pipeline at rest, while the path engine is exercised on its own
MainIdle ==
    /\ json_files = <<>> /\ fields = <<>> /\ batch_size = 1
    /\ file_format = "json" /\ api_key = TRUE /\ client = FALSE
    /\ pc = "idle" /\ fi = 1
    /\ records = <<>> /\ is_jsonl = FALSE /\ tasks = <<>>
    /\ translated_records = <<>> /\ shared = FALSE /\ all_translations = <<>>
    /\ bi = 1 /\ attempt = 1 /\ wi = 1 /\ batchLog = <<>> /\ sent = <<>>
    /\ outputs = <<>> /\ exc = ""
    /\ judgeCalls = <<>> /\ repairCalls = <<>>

\* judge_batch not called
JudgeIdle ==
    /\ gemini_key = TRUE /\ jpairs = <<>> /\ jpc = "idle" /\ jattempt = 1
    /\ jfailed = <<>> /\ jresponse = <<>> /\ jverdicts = <<>>
    /\ jexc = NoException

\* translate_batch not called on its own
BatchIdle ==
    /\ btexts = <<>> /\ bkey = TRUE /\ bclient = FALSE /\ bpc = "idle"
    /\ battempt = 1 /\ blog = <<>> /\ bvalue = <<>> /\ bexc = ""

\* the path engine at rest, while main() runs
PathIdle ==
    /\ prec = Null /\ ppath = <<>> /\ ppc = "idle"
    /\ phits = <<>> /\ pidx = 1 /\ pobj = Null /\ dpaths = <<>>

\* ------------------------------------------------------------------------
\* The path engine on its own: _parse_path, _extract, then
\* _set_by_address of every hit with its own text
\* ------------------------------------------------------------------------

InitPath ==
    /\ prec \in PathRecords
    /\ ppath \in PathExprs
    /\ ppc = "start"
    /\ phits = <<>>
    /\ pidx = 1
    /\ pobj = prec
    /\ dpaths = <<>>
    /\ MainIdle
    /\ JudgeIdle
    /\ BatchIdle

PathExtract ==
    /\ ppc = "start"
    /\ phits' = Extract(prec, ParsePath(ppath), <<>>)
    /\ ppc' = "extracted"
    /\ UNCHANGED <<prec, ppath, pidx, pobj, dpaths, mainVars, judgeCallVars,
                   batchCallVars>>

PathSet ==
    /\ ppc = "extracted"
    /\ pidx <= Len(phits)
    /\ pobj' = SetByAddress(pobj, phits[pidx].addr, phits[pidx].text)
    /\ pidx' = pidx + 1
    /\ UNCHANGED <<prec, ppath, ppc, phits, dpaths, mainVars, judgeCallVars,
                   batchCallVars>>

NextPath == PathExtract \/ PathSet

SpecPath == InitPath /\ [][NextPath]_vars

\* ------------------------------------------------------------------------
\* Auto-detect mode on one record: _collect_all_string_paths, then the
\* tasks of lines 112 to 119
\* ------------------------------------------------------------------------

\* mapping keys: plain ones, one holding a dot, one holding brackets
KDot == <<"a", ".", "b">>

KStar == <<"a", "[", "*", "]">>

AutoKeys == {KA, KB, KDot, KStar}

AutoLeaves == {Str("x"), Str(""), Num, List(<<Str("z")>>)}

AutoValues ==
    AutoLeaves \cup {Dict(<<k>>, <<l>>) : k \in AutoKeys, l \in {Str("y"), Num}}

\* {"title":"hi","meta":{"note":"ok","n":5},"tags":["a","b"]}
DiscoverySample ==
    Dict(<< <<"t", "i", "t", "l", "e">>, <<"m", "e", "t", "a">>,
            <<"t", "a", "g", "s">> >>,
         << Str("hi"),
            Dict(<< <<"n", "o", "t", "e">>, <<"n">> >>, <<Str("ok"), Num>>),
            List(<<Str("a"), Str("b")>>) >>)

AutoRecords ==
    {Dict(<<k>>, <<v>>) : k \in AutoKeys, v \in AutoValues}
        \cup {Dict(<<k[1], k[2]>>, <<v, w>>) :
                 k \in {kk \in AutoKeys \X AutoKeys : kk[1] # kk[2]},
                 v \in AutoValues, w \in AutoValues}
        \cup {Dict(<<>>, <<>>), DiscoverySample}

InitAuto ==
    /\ prec \in AutoRecords
    /\ ppath = <<>>
    /\ ppc = "start"
    /\ phits = <<>>
    /\ pidx = 1
    /\ pobj = prec
    /\ dpaths = <<>>
    /\ MainIdle
    /\ JudgeIdle
    /\ BatchIdle

\* line 115: the paths of the record are discovered
Discover ==
    /\ ppc = "start"
    /\ dpaths' = CollectAllStringPaths(prec, <<>>)
    /\ ppc' = "discovered"
    /\ UNCHANGED <<prec, ppath, phits, pidx, pobj, mainVars, judgeCallVars,
                   batchCallVars>>

\* lines 115 to 119: every discovered path is parsed and extracted, and
\* the hits become the tasks of the record
AutoCollect ==
    /\ ppc = "discovered"
    /\ phits' = TasksOfRecord(0, prec, <<>>)
    /\ ppc' = "collected"
    /\ UNCHANGED <<prec, ppath, pidx, pobj, dpaths, mainVars, judgeCallVars,
                   batchCallVars>>

NextAuto == Discover \/ AutoCollect

SpecAuto == InitAuto /\ [][NextAuto]_vars

\* ------------------------------------------------------------------------
\* judge_batch on its own, under its retry decorator
\* ------------------------------------------------------------------------

\* the pair lists judge_batch is called with
PairLists ==
    {[i \in 1..m |-> [original |-> "x", translation |-> "T"]] :
        m \in 0..MaxPairs}

JudgeOutcome(kind, e, items) == [kind |-> kind, exc |-> e, items |-> items]

\* the API errors of the judge service: rate limit with and without a
\* suggested delay, overload, and a client and a server error of another
\* code
JudgeApiErrors ==
    {Exception("ClientError", 429, 0), Exception("ClientError", 429, 7),
     Exception("ServerError", 503, 0), Exception("ClientError", 400, 0),
     Exception("ServerError", 500, 0)}

VerdictEntries == {VerdictOk, VerdictRejected, VerdictNoOk, VerdictNoDict}

\* how the service may answer the request of one attempt for n pairs: an
\* error, text that is no JSON, a JSON value that is no array, an array of
\* n entries, or an array one entry short or long
JudgeOutcomes(n) ==
    {JudgeOutcome("error", e, <<>>) : e \in JudgeApiErrors}
        \cup {JudgeOutcome("notjson", NoException, <<>>),
              JudgeOutcome("object", NoException, <<>>)}
        \cup {JudgeOutcome("array", NoException, a) :
                 a \in [1..n -> VerdictEntries]
                          \cup {[i \in 1..(n + 1) |-> VerdictOk]}
                          \cup {[i \in 1..(n - 1) |-> VerdictOk]}}

InitJudge ==
    /\ gemini_key \in BOOLEAN
    /\ jpairs \in PairLists
    /\ jpc = "call"
    /\ jattempt = 1
    /\ jfailed = <<>> /\ jresponse = <<>> /\ jverdicts = <<>>
    /\ jexc = NoException
    /\ MainIdle
    /\ PathIdle
    /\ BatchIdle

\* an attempt returns the normalised verdicts
JudgeReturns ==
    /\ jpc = "call"
    /\ \E o \in JudgeOutcomes(Len(jpairs)) :
          LET r == JudgeBody(Len(jpairs), gemini_key, o)
          IN  /\ r.ok
              /\ jresponse' = o.items
              /\ jverdicts' = r.value
    /\ jpc' = "returned"
    /\ UNCHANGED <<pathVars, mainVars, batchCallVars, gemini_key, jpairs, jattempt, jfailed,
                   jexc>>

\* an attempt raises, _SmartStop lets the call go on and tenacity sleeps
\* for what _SmartWait says
JudgeRetries ==
    /\ jpc = "call"
    /\ jattempt < MaxJudgeAttempts
    /\ \E o \in JudgeOutcomes(Len(jpairs)) :
          LET r == JudgeBody(Len(jpairs), gemini_key, o)
          IN  /\ ~r.ok
              /\ ~_SmartStop(jattempt, r.exc)
              /\ jfailed' = Append(jfailed,
                     [exc |-> r.exc, wait |-> _SmartWait(jattempt, r.exc)])
    /\ jattempt' = jattempt + 1
    /\ UNCHANGED <<pathVars, mainVars, batchCallVars, gemini_key, jpairs, jpc, jresponse,
                   jverdicts, jexc>>

\* an attempt raises and _SmartStop stops: reraise=True hands the
\* exception to the caller
JudgeRaises ==
    /\ jpc = "call"
    /\ \E o \in JudgeOutcomes(Len(jpairs)) :
          LET r == JudgeBody(Len(jpairs), gemini_key, o)
          IN  /\ ~r.ok
              /\ _SmartStop(jattempt, r.exc)
              /\ jexc' = r.exc
    /\ jpc' = "raised"
    /\ UNCHANGED <<pathVars, mainVars, batchCallVars, gemini_key, jpairs, jattempt, jfailed,
                   jresponse, jverdicts>>

NextJudge == JudgeReturns \/ JudgeRetries \/ JudgeRaises

SpecJudge == InitJudge /\ [][NextJudge]_vars

\* ------------------------------------------------------------------------
\* translate_batch on its own, under its retry decorator
\* ------------------------------------------------------------------------

\* the lists translate_batch is called with, the empty list among them
TextLists == SeqsUpTo({"x", "y"}, MaxBatchSize)

InitBatch ==
    /\ btexts \in TextLists
    /\ bkey \in BOOLEAN
    /\ bclient = FALSE
    /\ bpc = "call"
    /\ battempt = 1
    /\ blog = <<>> /\ bvalue = <<>> /\ bexc = ""
    /\ MainIdle
    /\ PathIdle
    /\ JudgeIdle

\* an attempt returns
BatchCallReturns ==
    /\ bpc = "call"
    /\ \E o \in Outcomes(btexts) :
          LET r == TranslateBatchBody(btexts, bclient, bkey, o)
          IN  /\ r.ok
              /\ bvalue' = r.value
              /\ blog' = blog \o r.calls
              /\ bclient' = r.client
    /\ bpc' = "returned"
    /\ UNCHANGED <<pathVars, mainVars, judgeCallVars, btexts, bkey, battempt,
                   bexc>>

\* an attempt raises and tenacity sleeps before the next one
BatchCallRetries ==
    /\ bpc = "call"
    /\ battempt < MAX_ATTEMPTS
    /\ \E o \in Outcomes(btexts) :
          LET r == TranslateBatchBody(btexts, bclient, bkey, o)
          IN  /\ ~r.ok
              /\ blog' = (blog \o r.calls)
                             \o <<WaitEv(WaitExponential(battempt))>>
              /\ bclient' = r.client
    /\ battempt' = battempt + 1
    /\ UNCHANGED <<pathVars, mainVars, judgeCallVars, btexts, bkey, bpc,
                   bvalue, bexc>>

\* the last attempt raises: reraise=True hands the exception to the caller
BatchCallRaises ==
    /\ bpc = "call"
    /\ battempt >= MAX_ATTEMPTS
    /\ \E o \in Outcomes(btexts) :
          LET r == TranslateBatchBody(btexts, bclient, bkey, o)
          IN  /\ ~r.ok
              /\ blog' = blog \o r.calls
              /\ bclient' = r.client
              /\ bexc' = r.exc
    /\ bpc' = "raised"
    /\ UNCHANGED <<pathVars, mainVars, judgeCallVars, btexts, bkey, battempt,
                   bvalue>>

NextBatch == BatchCallReturns \/ BatchCallRetries \/ BatchCallRaises

SpecBatch == InitBatch /\ [][NextBatch]_vars

\* ------------------------------------------------------------------------
\* main(): the per-file loop, translate_records and translate_batch
\* ------------------------------------------------------------------------

Init ==
    /\ json_files \in Directories
    /\ fields \in FieldConfigs
    /\ batch_size \in BatchSizes
    /\ file_format \in {"json", "jsonl"}
    /\ api_key \in BOOLEAN
    /\ client = FALSE
    /\ pc = "start" /\ fi = 1
    /\ records = <<>> /\ is_jsonl = FALSE /\ tasks = <<>>
    /\ translated_records = <<>> /\ shared = FALSE /\ all_translations = <<>>
    /\ bi = 1 /\ attempt = 1 /\ wi = 1 /\ batchLog = <<>> /\ sent = <<>>
    /\ outputs = [f \in 1..Len(json_files) |-> NoOutput]
    /\ exc = ""
    /\ judgeCalls = <<>> /\ repairCalls = <<>>
    /\ PathIdle
    /\ JudgeIdle
    /\ BatchIdle

\* an exception nothing catches leaves main(): the process ends
Abort(e) == pc' = "aborted" /\ exc' = e

\* lines 269 to 279: no input file, sys.exit(0); else enter the loop
Start ==
    /\ pc = "start"
    /\ pc' = IF json_files = <<>> THEN "exit" ELSE "main"
    /\ UNCHANGED <<pathVars, judgeCallVars, batchCallVars,
                   configVars, client, fi, fileVars, outputs, exc,
                   judgeVars>>

\* lines 281 to 287: the next file is read
ReadFile ==
    /\ pc = "main"
    /\ fi <= Len(json_files)
    /\ LET r == ReadRecords(Catalogue[json_files[fi]], file_format)
       IN  IF r.ok
           THEN /\ records' = r.records
                /\ is_jsonl' = r.is_jsonl
                /\ pc' = "loaded"
                /\ exc' = exc
           ELSE /\ Abort(r.exc)
                /\ UNCHANGED <<records, is_jsonl>>
    /\ UNCHANGED <<pathVars, judgeCallVars, batchCallVars,
                   configVars, client, fi, tasks, translated_records,
                   shared, all_translations, bi, attempt, wi, batchLog, sent,
                   outputs, judgeVars>>

\* _collect_all_string_paths calls obj.items() on the record
CollectRaises(recs, flds) ==
    Len(flds) = 0 /\ \E r \in 1..Len(recs) : recs[r].t # "dict"

\* `return records`: the very list and objects of the caller
SameList(recs) == [list |-> recs, shared |-> TRUE]

\* a copy step that hands back the list it was given
NoCopy(recs) == [list |-> recs, shared |-> TRUE]

\* copy.deepcopy(records): an equal list that shares no object with recs
DeepCopy(recs) == [list |-> recs, shared |-> FALSE]

\* the number of pairs of zip(tasks, all_translations)
ZipLen(tsks, trs) == Min(Len(tsks), Len(trs))

\* translate_records going on to the copy and the batches with no task
TranslateRecordsBeginNoEarlyReturn ==
    /\ pc = "loaded"
    /\ IF CollectRaises(records, fields)
       THEN /\ Abort("AttributeError")
            /\ UNCHANGED <<tasks, translated_records, shared,
                           all_translations, bi, attempt, wi, batchLog, sent>>
       ELSE LET tsks == CollectTasks(records, fields)
                copy == DeepCopy(records)
            IN  /\ tasks' = tsks
                /\ translated_records' = copy.list
                /\ shared' = copy.shared
                /\ all_translations' = <<>>
                /\ bi' = 1 /\ attempt' = 1 /\ wi' = 1
                /\ batchLog' = <<>> /\ sent' = <<>>
                /\ IF batch_size = 0 THEN Abort("ValueError: range() step")
                   ELSE /\ pc' = IF Batches(TextsOnly(tsks), batch_size) = <<>>
                                 THEN "write" ELSE "batch"
                        /\ exc' = exc
    /\ UNCHANGED <<pathVars, judgeCallVars, batchCallVars,
                   configVars, client, fi, records, is_jsonl,
                   outputs, judgeVars>>

\* translate_records, lines 106 to 139: the tasks are collected; without a
\* task the records are returned as they are; else they are deep-copied and
\* the batches are built
TranslateRecordsBegin ==
    /\ pc = "loaded"
    /\ IF CollectRaises(records, fields)
       THEN /\ Abort("AttributeError")
            /\ UNCHANGED <<tasks, translated_records, shared,
                           all_translations, bi, attempt, wi, batchLog, sent>>
       ELSE LET tsks == CollectTasks(records, fields)
                copy == IF tsks = <<>> THEN SameList(records)
                        ELSE DeepCopy(records)
            IN  /\ tasks' = tsks
                /\ translated_records' = copy.list
                /\ shared' = copy.shared
                /\ all_translations' = <<>>
                /\ bi' = 1 /\ attempt' = 1 /\ wi' = 1
                /\ batchLog' = <<>> /\ sent' = <<>>
                /\ IF tsks = <<>> THEN pc' = "write" /\ exc' = exc
                   ELSE IF batch_size = 0 THEN Abort("ValueError: range() step")
                   ELSE /\ pc' = IF Batches(TextsOnly(tsks), batch_size) = <<>>
                                 THEN "write" ELSE "batch"
                        /\ exc' = exc
    /\ UNCHANGED <<pathVars, judgeCallVars, batchCallVars,
                   configVars, client, fi, records, is_jsonl,
                   outputs, judgeVars>>

\* the batch translate_batch is called with
CurrentBatch == Batches(TextsOnly(tasks), batch_size)[bi]

\* a loop that puts the translations of a batch in front of the list
TranslateBatchReturnsPrepending ==
    /\ pc = "batch"
    /\ \E o \in Outcomes(CurrentBatch) :
          LET r == TranslateBatchBody(CurrentBatch, client, api_key, o)
          IN  /\ r.ok
              /\ all_translations' = r.value \o all_translations
              /\ sent' = sent \o r.calls[Len(r.calls)].texts
              /\ batchLog' = <<>>
              /\ client' = r.client
              /\ bi' = bi + 1
              /\ attempt' = 1
              /\ pc' = IF bi < Len(Batches(TextsOnly(tasks), batch_size))
                       THEN "batch"
                       ELSE IF ZipLen(tasks, r.value \o all_translations) = 0
                            THEN "write" ELSE "writeback"
    /\ UNCHANGED <<pathVars, judgeCallVars, batchCallVars,
                   configVars, fi, records, is_jsonl, tasks,
                   translated_records, shared, wi, outputs, exc, judgeVars>>

\* lines 141 to 148: an attempt of translate_batch returns, and the
\* translations are appended
TranslateBatchReturns ==
    /\ pc = "batch"
    /\ \E o \in Outcomes(CurrentBatch) :
          LET r == TranslateBatchBody(CurrentBatch, client, api_key, o)
          IN  /\ r.ok
              /\ all_translations' = all_translations \o r.value
              /\ sent' = sent \o r.calls[Len(r.calls)].texts
              /\ batchLog' = <<>>
              /\ client' = r.client
              /\ bi' = bi + 1
              /\ attempt' = 1
              /\ pc' = IF bi < Len(Batches(TextsOnly(tasks), batch_size))
                       THEN "batch"
                       ELSE IF ZipLen(tasks, all_translations \o r.value) = 0
                            THEN "write" ELSE "writeback"
    /\ UNCHANGED <<pathVars, judgeCallVars, batchCallVars,
                   configVars, fi, records, is_jsonl, tasks,
                   translated_records, shared, wi, outputs, exc, judgeVars>>

\* an attempt raises and tenacity sleeps before the next one
TranslateBatchRetries ==
    /\ pc = "batch"
    /\ attempt < MAX_ATTEMPTS
    /\ \E o \in Outcomes(CurrentBatch) :
          LET r == TranslateBatchBody(CurrentBatch, client, api_key, o)
          IN  /\ ~r.ok
              /\ batchLog' = (batchLog \o r.calls)
                                 \o <<WaitEv(WaitExponential(attempt))>>
              /\ client' = r.client
              /\ attempt' = attempt + 1
    /\ UNCHANGED <<pathVars, judgeCallVars, batchCallVars,
                   configVars, pc, fi, records, is_jsonl, tasks,
                   translated_records, shared, all_translations, bi, wi, sent,
                   outputs, exc, judgeVars>>

\* the last attempt raises, and an output file is saved for the file before
\* the exception leaves
TranslateBatchRaisesAfterSave ==
    /\ pc = "batch"
    /\ attempt >= MAX_ATTEMPTS
    /\ \E o \in Outcomes(CurrentBatch) :
          LET r == TranslateBatchBody(CurrentBatch, client, api_key, o)
          IN  /\ ~r.ok
              /\ batchLog' = batchLog \o r.calls
              /\ client' = r.client
              /\ Abort(r.exc)
    /\ outputs' = [outputs EXCEPT ![fi] =
           [written |-> TRUE,
            file |-> WriteRecords(translated_records, is_jsonl,
                                  ~is_jsonl /\ Len(records) = 1)]]
    /\ UNCHANGED <<pathVars, judgeCallVars, batchCallVars,
                   configVars, fi, records, is_jsonl, tasks,
                   translated_records, shared, all_translations, bi, attempt,
                   wi, sent, judgeVars>>

\* the last attempt raises: reraise=True hands the exception to the caller
TranslateBatchRaises ==
    /\ pc = "batch"
    /\ attempt >= MAX_ATTEMPTS
    /\ \E o \in Outcomes(CurrentBatch) :
          LET r == TranslateBatchBody(CurrentBatch, client, api_key, o)
          IN  /\ ~r.ok
              /\ batchLog' = batchLog \o r.calls
              /\ client' = r.client
              /\ Abort(r.exc)
    /\ UNCHANGED <<pathVars, judgeCallVars, batchCallVars,
                   configVars, fi, records, is_jsonl, tasks,
                   translated_records, shared, all_translations, bi, attempt,
                   wi, sent, outputs, judgeVars>>

\* a write-back loop that leaves an address alone once a task has written it
WriteBackKeepingFirst ==
    /\ pc = "writeback"
    /\ wi <= ZipLen(tasks, all_translations)
    /\ LET task == tasks[wi]
           seen == \E j \in 1..(wi - 1) :
                       tasks[j].rec = task.rec /\ tasks[j].addr = task.addr
           done == IF seen THEN translated_records[task.rec + 1]
                   ELSE SetByAddress(translated_records[task.rec + 1],
                                     task.addr, all_translations[wi])
       IN  IF IsError(done)
           THEN /\ Abort(done.s)
                /\ UNCHANGED <<translated_records, records, wi>>
           ELSE /\ translated_records' =
                       [translated_records EXCEPT ![task.rec + 1] = done]
                /\ records' = IF shared THEN translated_records' ELSE records
                /\ wi' = wi + 1
                /\ pc' = IF wi < ZipLen(tasks, all_translations)
                         THEN "writeback" ELSE "write"
                /\ exc' = exc
    /\ UNCHANGED <<pathVars, judgeCallVars, batchCallVars,
                   configVars, client, fi, is_jsonl, tasks, shared,
                   all_translations, bi, attempt, batchLog, sent, outputs,
                   judgeVars>>

\* lines 151 to 154: one turn of the write-back loop; _set_by_address
\* mutates the record in place, so a list that is the caller's own list
\* changes the caller's records too
WriteBack ==
    /\ pc = "writeback"
    /\ wi <= ZipLen(tasks, all_translations)
    /\ LET task == tasks[wi]
           done == SetByAddress(translated_records[task.rec + 1], task.addr,
                                all_translations[wi])
       IN  IF IsError(done)
           THEN /\ Abort(done.s)
                /\ UNCHANGED <<translated_records, records, wi>>
           ELSE /\ translated_records' =
                       [translated_records EXCEPT ![task.rec + 1] = done]
                /\ records' = IF shared THEN translated_records' ELSE records
                /\ wi' = wi + 1
                /\ pc' = IF wi < ZipLen(tasks, all_translations)
                         THEN "writeback" ELSE "write"
                /\ exc' = exc
    /\ UNCHANGED <<pathVars, judgeCallVars, batchCallVars,
                   configVars, client, fi, is_jsonl, tasks, shared,
                   all_translations, bi, attempt, batchLog, sent, outputs,
                   judgeVars>>

\* the loop moves on to the next file with the output not written yet
WriteOutputDeferred ==
    /\ pc = "write"
    /\ fi' = fi + 1
    /\ pc' = "main"
    /\ UNCHANGED <<pathVars, judgeCallVars, batchCallVars,
                   configVars, client, fileVars, outputs, exc,
                   judgeVars>>

\* lines 285 and 298 to 301: the output file is written
WriteOutput ==
    /\ pc = "write"
    /\ LET was_single == ~is_jsonl /\ Len(records) = 1
       IN  outputs' = [outputs EXCEPT ![fi] =
               [written |-> TRUE,
                file |-> WriteRecords(translated_records, is_jsonl, was_single)]]
    /\ fi' = fi + 1
    /\ pc' = "main"
    /\ UNCHANGED <<pathVars, judgeCallVars, batchCallVars,
                   configVars, client, fileVars, exc, judgeVars>>

\* line 303: every file is done
Finish ==
    /\ pc = "main"
    /\ fi > Len(json_files)
    /\ pc' = "done"
    /\ UNCHANGED <<pathVars, judgeCallVars, batchCallVars,
                   configVars, client, fi, fileVars, outputs, exc,
                   judgeVars>>

Next ==
    \/ Start
    \/ ReadFile
    \/ TranslateRecordsBegin
    \/ TranslateBatchReturns
    \/ TranslateBatchRetries
    \/ TranslateBatchRaises
    \/ WriteBack
    \/ WriteOutput
    \/ Finish

Spec == Init /\ [][Next]_vars

\* ------------------------------------------------------------------------
\* Claims
\* ------------------------------------------------------------------------

\* C1: writing every text _extract yielded back at the address it was
\* yielded with, by _set_by_address on the same record, leaves the record
\* equal to the original at every point of the write-back.
C1_RoundTrip == ppc = "extracted" => pobj = prec

\* C1 witness: a wildcard path yielded at least two hits below the record
\* root, all of them were written back, and the record is the original.
C1_Witness ==
    /\ ppc = "extracted"
    /\ Len(phits) >= 2
    /\ pidx > Len(phits)
    /\ \A i \in 1..Len(phits) : Len(phits[i].addr) >= 2
    /\ pobj = prec


\* ------------------------------------------------------------------------
\* Vocabulary of the claims about _extract
\* ------------------------------------------------------------------------

\* the value at address in obj, going through mappings by key and through
\* sequences by index only
RECURSIVE Follow(_, _)
Follow(obj, address) ==
    IF address = <<>> THEN obj
    ELSE LET c == Head(address)
         IN  IF obj.t = "dict" /\ c.k = "key" /\ KeyPos(obj, c) # 0
             THEN Follow(obj.items[KeyPos(obj, c)], Tail(address))
             ELSE IF obj.t = "list" /\ c.k = "idx"
                     /\ 0 <= c.idx /\ c.idx < Len(obj.items)
             THEN Follow(obj.items[c.idx + 1], Tail(address))
             ELSE Raised("no such position")

\* the length of the longest sequence in obj
RECURSIVE Width(_)
Width(obj) ==
    LET below == {Width(obj.items[i]) : i \in 1..Len(obj.items)}
        here  == IF obj.t = "list" THEN {Len(obj.items)} ELSE {0}
    IN  CHOOSE m \in below \cup here : \A n \in below \cup here : n <= m

\* the addresses of the shape of tokens: the key of a key token, any index
\* below w at a wildcard
RECURSIVE Candidates(_, _)
Candidates(tokens, w) ==
    IF tokens = <<>> THEN {<<>>}
    ELSE {<<c>> \o rest :
            c \in (IF Head(tokens).wild THEN {IdxC(j) : j \in 0..(w - 1)}
                   ELSE {KeyC(Head(tokens).key)}),
            rest \in Candidates(Tail(tokens), w)}

\* the addresses of the record that the path resolves to a non-empty string
Matches ==
    {a \in Candidates(ParsePath(ppath), Width(prec)) :
        Follow(prec, a).t = "str" /\ Follow(prec, a).s # ""}

\* address a comes before address b in depth-first index order
AddrBefore(a, b) ==
    /\ Len(a) = Len(b)
    /\ \E i \in 1..Len(a) :
          /\ \A j \in 1..(i - 1) : a[j] = b[j]
          /\ a[i].k = "idx" /\ b[i].k = "idx"
          /\ a[i].idx < b[i].idx

\* the three matches of "a[*][*].b" on NestedSample
NestedHits ==
    << [addr |-> <<KeyC(KA), IdxC(0), IdxC(0), KeyC(KB)>>, text |-> "x"],
       [addr |-> <<KeyC(KA), IdxC(0), IdxC(1), KeyC(KB)>>, text |-> "y"],
       [addr |-> <<KeyC(KA), IdxC(1), IdxC(0), KeyC(KB)>>, text |-> "z"] >>

\* ------------------------------------------------------------------------
\* Claims about _extract
\* ------------------------------------------------------------------------

\* C13: an address component yielded for a wildcard token is an index into
\* a sequence, one for a key token is that key; the matches are yielded in
\* depth-first ascending index order, one per matching element; and
\* "a[*][*].b" on the nested sample yields exactly its three matches in
\* order.
C13_WildcardOrder ==
    ppc = "extracted" =>
        LET tokens == ParsePath(ppath)
        IN  /\ \A h \in 1..Len(phits) :
                  /\ Len(phits[h].addr) = Len(tokens)
                  /\ \A i \in 1..Len(tokens) :
                        IF tokens[i].wild
                        THEN /\ phits[h].addr[i].k = "idx"
                             /\ Follow(prec, SubSeq(phits[h].addr, 1, i - 1)).t
                                    = "list"
                        ELSE phits[h].addr[i] = KeyC(tokens[i].key)
            /\ \A h \in 1..Len(phits) : \A g \in 1..(h - 1) :
                  AddrBefore(phits[g].addr, phits[h].addr)
            /\ Len(phits) = Cardinality(Matches)
            /\ (prec = NestedSample /\ ppath = NestedPath) => phits = NestedHits

\* C13 witness: "a[*][*].b" was evaluated on the nested sample and gave
\* three matches.
C13_Witness ==
    /\ ppc = "extracted"
    /\ prec = NestedSample
    /\ ppath = NestedPath
    /\ Len(phits) = 3

\* C14: every pair yielded has a non-empty text, and the value at its
\* address in the record is that very string; so an empty string, a
\* number, null, a mapping or a sequence at the end of the path is never
\* yielded.
C14_NonEmptyStrings ==
    ppc = "extracted" =>
        \A h \in 1..Len(phits) :
            /\ phits[h].text # ""
            /\ Follow(prec, phits[h].addr) = Str(phits[h].text)

\* C14 witness: "a[*]" on a list of an empty string and a non-empty one
\* yielded the non-empty one alone.
C14_Witness ==
    /\ ppc = "extracted"
    /\ prec = Dict(<<KA>>, <<List(<<Str(""), Str("x")>>)>>)
    /\ ppath = <<"a", "[", "*", "]">>
    /\ phits = <<[addr |-> <<KeyC(KA), IdxC(1)>>, text |-> "x"]>>

\* C15: evaluating any path expression on any record leaves the record as
\* it was, and yields the addresses the path resolves to and nothing else:
\* a missing key, a key token on a non-mapping, a wildcard on a
\* non-sequence or a malformed expression yields no pair and no error.
C15_PureTotal ==
    /\ pidx = 1 => pobj = prec
    /\ ppc = "extracted" =>
          /\ {phits[h].addr : h \in 1..Len(phits)} = Matches
          /\ Matches = {} => phits = <<>>

\* C15 witness: "b[*]", a wildcard applied to a string, was evaluated on a
\* record and yielded nothing, the record unchanged.
C15_Witness ==
    /\ ppc = "extracted"
    /\ prec = Dict(<<KA, KB>>, <<Str("x"), Str("y")>>)
    /\ ppath = <<"b", "[", "*", "]">>
    /\ phits = <<>>
    /\ pobj = prec

\* ------------------------------------------------------------------------
\* Claims about auto-detect mode
\* ------------------------------------------------------------------------

\* the (address, text) of every non-empty string reachable from obj
\* through mappings only
RECURSIVE StringLeaves(_, _)
StringLeaves(obj, at) ==
    IF obj.t = "str"
    THEN IF obj.s # "" THEN {[addr |-> at, text |-> obj.s]} ELSE {}
    ELSE IF obj.t = "dict"
    THEN UNION {StringLeaves(obj.items[i], Append(at, obj.keys[i])) :
                  i \in 1..Len(obj.items)}
    ELSE {}

\* C16 (as claimed): in auto-detect mode the tasks of a record are exactly
\* one task per non-empty string reachable through nested mappings, with
\* the address and the text of that string, whatever the mapping keys are.
C16_AutoTasksExact ==
    ppc = "collected" =>
        /\ Len(phits) = Cardinality(StringLeaves(prec, <<>>))
        /\ {[addr |-> phits[h].addr, text |-> phits[h].text] :
               h \in 1..Len(phits)} = StringLeaves(prec, <<>>)

\* the addresses of the strings, empty ones too, reachable from obj
\* through mappings only
RECURSIVE StrAddrs(_, _)
StrAddrs(obj, at) ==
    IF obj.t = "str" THEN {at}
    ELSE IF obj.t = "dict"
    THEN UNION {StrAddrs(obj.items[i], Append(at, obj.keys[i])) :
                  i \in 1..Len(obj.items)}
    ELSE {}

\* address a comes before address b in mapping order: at the first
\* component they differ in, the key of a stands before the key of b
MapBefore(a, b) ==
    \E i \in 1..Min(Len(a), Len(b)) :
        /\ \A j \in 1..(i - 1) : a[j] = b[j]
        /\ a[i] # b[i]
        /\ KeyPos(Follow(prec, SubSeq(a, 1, i - 1)), a[i])
               < KeyPos(Follow(prec, SubSeq(b, 1, i - 1)), b[i])

\* the keys of an address joined with dots
RECURSIVE Dotted(_)
Dotted(a) ==
    IF Len(a) = 1 THEN a[1].name
    ELSE a[1].name \o <<".">> \o Dotted(Tail(a))

\* C17: the paths _collect_all_string_paths returns are the dotted paths
\* of the string values reachable through mappings only, one each, in
\* mapping order; nothing is reported for a number or below a sequence; on
\* the sample record they are "title" and "meta.note".
C17_DiscoveryPaths ==
    ppc \in {"discovered", "collected"} =>
        LET addrs == StrAddrs(prec, <<>>)
        IN  /\ Len(dpaths) = Cardinality(addrs)
            /\ \A a \in addrs :
                  dpaths[1 + Cardinality({b \in addrs : MapBefore(b, a)})]
                      = Dotted(a)
            /\ prec = DiscoverySample =>
                  dpaths = << <<"t", "i", "t", "l", "e">>,
                              <<"m", "e", "t", "a", ".", "n", "o", "t", "e">> >>

\* C17 witness: the paths of the sample record were discovered, two of
\* them, its number and its list of strings left out.
C17_Witness ==
    /\ ppc = "discovered"
    /\ prec = DiscoverySample
    /\ Len(dpaths) = 2

\* ------------------------------------------------------------------------
\* Vocabulary of the claims about main()
\* ------------------------------------------------------------------------

\* the value found by following address from obj
RECURSIVE GetAt(_, _)
GetAt(obj, address) ==
    IF address = <<>> THEN obj
    ELSE GetAt(GetItem(obj, Head(address)), Tail(address))

\* translate_records is past task collection, with at least one task
InTranslate == pc \in {"batch", "writeback", "write"} /\ tasks # <<>>

\* (record, path, hit) positions of the file's matches, 1-based
HitsAt(r, p) ==
    Extract(records[r], ParsePath(PathsOf(records[r], fields)[p]), <<>>)

MatchKeys ==
    UNION {UNION {{<<r, p, h>> : h \in 1..Len(HitsAt(r, p))} :
                    p \in 1..Len(PathsOf(records[r], fields))} :
             r \in 1..Len(records)}

\* record index first, then path order, then traversal order
KeyBefore(u, v) ==
    \/ u[1] < v[1]
    \/ u[1] = v[1] /\ u[2] < v[2]
    \/ u[1] = v[1] /\ u[2] = v[2] /\ u[3] < v[3]

RankOf(v) == 1 + Cardinality({u \in MatchKeys : KeyBefore(u, v)})

\* task k is the last task written so far at its address of its record
LastWriteAt(k) ==
    \A j \in (k + 1)..(wi - 1) :
        ~(tasks[j].rec = tasks[k].rec /\ tasks[j].addr = tasks[k].addr)

\* the exceptions translate_batch hands to translate_records
TranslateBatchErrors ==
    {"EnvironmentError", "APIError", "BadRequestError",
     "ValueError: non-JSON output", "ValueError: expected a JSON array",
     "ValueError: translation count mismatch"}

\* the events of the call log that are requests, that are sleeps
CallsIn(log) == {i \in 1..Len(log) : log[i].ev = "call"}

WaitsIn(log) == {i \in 1..Len(log) : log[i].ev = "wait"}


\* ------------------------------------------------------------------------
\* Claims about main()
\* ------------------------------------------------------------------------

\* C2: tasks are ordered by record, then configured path, then traversal
\* order; the k-th text of the batches sent is the text of the k-th task,
\* the k-th translation returned belongs to the k-th task, and it is the
\* value written at the k-th task's address in the copy of the k-th task's
\* own record, no other record being touched.
C2_PositionalMatching ==
    InTranslate =>
        /\ Len(tasks) = Cardinality(MatchKeys)
        /\ \A v \in MatchKeys :
              tasks[RankOf(v)] =
                  [rec |-> v[1] - 1, addr |-> HitsAt(v[1], v[2])[v[3]].addr,
                   text |-> HitsAt(v[1], v[2])[v[3]].text]
        /\ Len(sent) = Len(all_translations)
        /\ Len(sent) <= Len(tasks)
        /\ \A k \in 1..Len(sent) : sent[k] = tasks[k].text
        /\ \A i \in CallsIn(batchLog) :
              batchLog[i].texts =
                  SubSeq(TextsOnly(tasks), Len(sent) + 1,
                         Len(sent) + Len(batchLog[i].texts))
        /\ (pc \in {"writeback", "write"} /\ batch_size > 0)
              => Len(sent) = Len(tasks)
        /\ (pc = "write" /\ batch_size > 0) => wi = Len(tasks) + 1
        /\ \A k \in 1..(wi - 1) :
              LastWriteAt(k) =>
                  GetAt(translated_records[tasks[k].rec + 1], tasks[k].addr)
                      = Str(all_translations[k])
        /\ \A r \in 1..Len(records) :
              (\A k \in 1..(wi - 1) : tasks[k].rec # r - 1)
                  => translated_records[r] = records[r]

\* C2 witness: translate_records is about to return with four tasks of
\* two records and two paths of one record, sent in several batches, the
\* translations of the first two tasks differing.
C2_Witness ==
    /\ pc = "write"
    /\ Len(tasks) = 4
    /\ tasks[1].rec = 0 /\ tasks[2].rec = 0 /\ tasks[3].rec = 1
    /\ batch_size = 1
    /\ all_translations[1] = "T"
    /\ all_translations[2] = tasks[2].text
    /\ all_translations[4] = "T"
    /\ wi = 5

\* C5: a translate_batch call makes at most 4 attempts; each failed attempt
\* short of the 4th was followed by one backoff sleep and a new attempt, and
\* when the exception reaches the caller the 4th attempt has failed, after
\* exactly 3 sleeps.
C5_BoundedAttempts ==
    /\ attempt \in 1..4
    /\ pc = "batch" =>
          /\ Cardinality(WaitsIn(batchLog)) = attempt - 1
          /\ attempt > 1 => batchLog[Len(batchLog)].ev = "wait"
          /\ Cardinality(CallsIn(batchLog)) <= 2 * (attempt - 1)
    /\ (pc = "aborted" /\ exc \in TranslateBatchErrors) =>
          /\ attempt = 4
          /\ Cardinality(WaitsIn(batchLog)) = 3
          /\ Cardinality(CallsIn(batchLog)) <= 2 * 4

\* C5 witness: the 4th attempt failed on the service and the error reached
\* the caller, after four or more requests and three sleeps.
C5_Witness ==
    /\ pc = "aborted"
    /\ exc = "ValueError: non-JSON output"
    /\ attempt = 4
    /\ Cardinality(CallsIn(batchLog)) >= 4
    /\ Cardinality(WaitsIn(batchLog)) = 3

\* C6: the translations translate_batch has returned are exactly as many
\* as the texts of the batches it was called with; a response of another
\* length adds nothing to them, it raises.
C6_SameLength ==
    (/\ tasks # <<>>
     /\ pc \in {"batch", "writeback", "write", "aborted"}
     /\ pc = "aborted" => exc \in TranslateBatchErrors)
        => Len(all_translations) =
               Len(Flatten(SubSeq(Batches(TextsOnly(tasks), batch_size),
                                  1, bi - 1)))

\* C6 witness: a well-formed array of the wrong length was the last
\* response; the count mismatch was raised and no translation was kept
\* from it.
C6_Witness ==
    /\ pc = "aborted"
    /\ exc = "ValueError: translation count mismatch"
    /\ bi = 2
    /\ Len(all_translations) = batch_size
    /\ batch_size = 2

\* C7 (as claimed): without the API key the error is raised at once, with
\* no retry and no backoff sleep, before any record is read or collected.
C7_FailFast ==
    (pc = "aborted" /\ exc = "EnvironmentError") =>
        /\ records = <<>> /\ tasks = <<>>
        /\ attempt = 1
        /\ WaitsIn(batchLog) = {}

\* C8 (as claimed): when a file's processing raised an unrecovered error,
\* every other file of the run has its output written.
C8_OthersProcessed ==
    pc = "aborted" =>
        \A f \in 1..Len(json_files) : f # fi => outputs[f].written

\* C8 amended: when a file's processing raises an unrecovered error the run
\* ends there: exactly the files sorted before it have their output
\* written, the failing file and every later file have none.
C8_RunEndsAtFailure ==
    pc = "aborted" =>
        \A f \in 1..Len(json_files) : outputs[f].written <=> f < fi

\* C8 witness: the second of two files failed; the first has its output,
\* the second has none.
C8_Witness ==
    /\ pc = "aborted"
    /\ Len(json_files) = 2
    /\ fi = 2
    /\ outputs[1].written
    /\ ~outputs[2].written

\* C9: when translate_batch has raised for a batch of a file, the file has
\* no output, the copy of its records holds no translation of an earlier
\* batch, and the only requests made since the last returned batch are
\* those of the failed batch.
C9_NoPartialOutput ==
    (pc = "aborted" /\ exc \in TranslateBatchErrors) =>
        /\ ~outputs[fi].written
        /\ translated_records = records
        /\ wi = 1
        /\ Len(sent) = Len(all_translations)
        /\ \A i \in CallsIn(batchLog) : batchLog[i].texts = CurrentBatch

\* C9 witness: the first batch was translated to something else than its
\* source, the second batch failed for good, and nothing was written.
C9_Witness ==
    /\ pc = "aborted"
    /\ exc = "APIError"
    /\ bi = 2
    /\ all_translations # <<>>
    /\ all_translations[1] = "T"
    /\ ~outputs[fi].written

\* an input file of one of the three shapes, read with its own format
WellFormedInput(f) ==
    LET file == Catalogue[json_files[f]]
    IN  \/ file.shape = "jsonl" /\ file_format = "jsonl"
        \/ file.shape \in {"object", "array"} /\ file_format = "json"

\* every translation returned for the file equals its source text
ServiceEchoed ==
    /\ Len(all_translations) = Len(sent)
    /\ \A k \in 1..Len(all_translations) : all_translations[k] = sent[k]

\* C10 (as claimed): a well-formed input file translated by a service that
\* echoed every text is written out as it was read: same shape, same
\* records.
C10_EchoRoundTrip ==
    (pc = "main" /\ fi > 1 /\ WellFormedInput(fi - 1) /\ ServiceEchoed)
        => outputs[fi - 1].file = Catalogue[json_files[fi - 1]]


\* ------------------------------------------------------------------------
\* The judge scenario of C3 and C4: a judge that rejects the translation
\* "T" with one feedback string, a repair call that answers "R"
\* ------------------------------------------------------------------------

JudgeRejects(translation) == translation = "T"

JudgeFeedback == "keep the file name"

RepairAnswer == "R"

\* the repair rounds run for task k
RepairRounds(k) ==
    Cardinality({i \in 1..Len(repairCalls) : repairCalls[i].task = k})

\* translate_records is about to return the translated copy
Translated == pc = "write" /\ tasks # <<>> /\ wi = Len(tasks) + 1

\* C3 (as claimed): with the judge enabled, a translation the judge
\* rejected on round 1 was handed to the repair call with exactly the
\* task's text, the rejected translation and the feedback, and the output
\* record holds the repaired string at the task's address.
C3_RepairedInOutput ==
    (USE_JUDGE /\ Translated) =>
        \A k \in 1..Len(tasks) :
            JudgeRejects(all_translations[k]) =>
                /\ \E i \in 1..Len(repairCalls) :
                      repairCalls[i] =
                          [task |-> k, original |-> tasks[k].text,
                           previous |-> all_translations[k],
                           feedback |-> JudgeFeedback]
                /\ LastWriteAt(k) =>
                      GetAt(translated_records[tasks[k].rec + 1],
                            tasks[k].addr) = Str(RepairAnswer)

\* C4 (as claimed): with the judge enabled, a task gets at most
\* MAX_JUDGE_RETRIES repair rounds, and a translation the judge rejects is
\* accepted as final only once those rounds are exhausted.
C4_RepairRoundsExhausted ==
    (USE_JUDGE /\ Translated) =>
        \A k \in 1..Len(tasks) :
            /\ RepairRounds(k) <= MAX_JUDGE_RETRIES
            /\ (/\ LastWriteAt(k)
                /\ JudgeRejects(GetAt(translated_records[tasks[k].rec + 1],
                                      tasks[k].addr).s))
                  => RepairRounds(k) = MAX_JUDGE_RETRIES


\* ------------------------------------------------------------------------
\* Claims about the records translate_records is given and returns
\* ------------------------------------------------------------------------

\* the exceptions read_records raises
ReadErrors == {"ValueError: invalid JSON on line", "JSONDecodeError"}

\* the records of the current file as read_records returned them
RecordsRead == ReadRecords(Catalogue[json_files[fi]], file_format).records

\* translate_records is running, has returned, or has raised
CalledTranslate ==
    \/ pc \in {"batch", "writeback", "write"}
    \/ pc = "aborted" /\ exc \notin ReadErrors

\* C11: while translate_records runs, after it has returned and after it
\* has raised, the records it was given equal the records read from the
\* file; and with at least one task the list it works on and returns is a
\* copy that shares no object with them.
C11_InputUntouched ==
    /\ CalledTranslate => records = RecordsRead
    /\ InTranslate => ~shared

\* C11 witness: translate_records is about to return records that differ
\* from the input, every task written, the input as it was read.
C11_Witness ==
    /\ pc = "write"
    /\ Len(tasks) >= 2
    /\ wi = Len(tasks) + 1
    /\ translated_records # records
    /\ records = RecordsRead
    /\ ~shared


\* the addresses of the tasks of record r (1-based) written back so far
WrittenAddrs(r) ==
    {tasks[k].addr : k \in {j \in 1..(wi - 1) : tasks[j].rec = r - 1}}

\* b is a but for the leaves at the addresses addrs, which are strings in
\* both: same kinds, same keys in the same order, same lengths, same values
RECURSIVE SameExcept(_, _, _, _)
SameExcept(a, b, addrs, at) ==
    IF at \in addrs THEN a.t = "str" /\ b.t = "str"
    ELSE /\ a.t = b.t
         /\ a.s = b.s
         /\ a.keys = b.keys
         /\ Len(a.items) = Len(b.items)
         /\ \A i \in 1..Len(a.items) :
               SameExcept(a.items[i], b.items[i], addrs,
                          Append(at, IF a.t = "dict" THEN a.keys[i]
                                     ELSE IdxC(i - 1)))

\* C12: the records translate_records builds are the input records but for
\* the leaves at the addresses of the tasks written back: every key, the
\* order of the keys, every sequence length and every other value is that
\* of the input; and once every task is written, each task address holds
\* the translation of the last task with that address.
C12_OnlyTaskLeaves ==
    InTranslate =>
        /\ Len(translated_records) = Len(records)
        /\ \A r \in 1..Len(records) :
              SameExcept(records[r], translated_records[r], WrittenAddrs(r), <<>>)
        /\ (pc = "write" /\ wi = Len(tasks) + 1) =>
              \A k \in 1..Len(tasks) :
                  LastWriteAt(k) =>
                      GetAt(translated_records[tasks[k].rec + 1], tasks[k].addr)
                          = Str(all_translations[k])

\* C12 witness: a record of two keys with a nested mapping and a record
\* with a list holding an empty string, every targeted leaf translated to
\* another string, the keys, the list length and the empty string kept.
C12_Witness ==
    /\ pc = "write"
    /\ records = <<RecAB, RecList>>
    /\ translated_records =
           << Dict(<<KA, KB>>, <<Str("T"), Dict(<<KA>>, <<Str("T")>>)>>),
              Dict(<<KA>>, <<List(<<Str("T"), Str(""), Str("T")>>)>>) >>


\* ------------------------------------------------------------------------
\* Claims about the temperature fallback of translate_batch
\* ------------------------------------------------------------------------

\* the requests of the log made with the temperature parameter
TempCallsIn(log) == {i \in CallsIn(log) : log[i].temp}

\* C18: in the log of a translate_batch call, a rejection of the
\* temperature is followed at once, with no sleep between, by one request
\* for the same texts without the parameter; a request without the
\* parameter is made only then; every attempt opens with a request that
\* carries the parameter, so the fallback request starts no attempt and
\* the sleeps stay one per failed attempt; and a bad-request error of
\* another kind ends its attempt with no second request.
C18_TemperatureFallback ==
    (pc = "batch" \/ (pc = "aborted" /\ exc \in TranslateBatchErrors)) =>
        /\ \A i \in 1..Len(batchLog) :
              /\ batchLog[i].ev = "rejected" =>
                    /\ i > 1 /\ i < Len(batchLog)
                    /\ batchLog[i - 1].ev = "call" /\ batchLog[i - 1].temp
                    /\ batchLog[i + 1] = CallEv(batchLog[i - 1].texts, FALSE)
              /\ (batchLog[i].ev = "call" /\ ~batchLog[i].temp) =>
                    i > 1 /\ batchLog[i - 1].ev = "rejected"
              /\ (batchLog[i].ev = "call" /\ batchLog[i].temp) =>
                    i = 1 \/ batchLog[i - 1].ev = "wait"
        /\ pc = "batch" =>
              /\ Cardinality(WaitsIn(batchLog)) = attempt - 1
              /\ (api_key \/ client) =>
                    Cardinality(TempCallsIn(batchLog)) = attempt - 1
        /\ (pc = "aborted" /\ exc = "BadRequestError") =>
              /\ attempt = MAX_ATTEMPTS
              /\ batchLog[Len(batchLog)].ev = "call"
              /\ batchLog[Len(batchLog)].temp

\* C18 witness: the first attempt had its temperature rejected, asked
\* again without it and failed on the answer; one sleep later the second
\* attempt is under way.
C18_Witness ==
    /\ pc = "batch"
    /\ attempt = 2
    /\ Len(batchLog) = 4
    /\ batchLog[1].ev = "call" /\ batchLog[1].temp
    /\ batchLog[2] = RejectEv
    /\ batchLog[3] = CallEv(batchLog[1].texts, FALSE)
    /\ batchLog[4] = WaitEv(2)


\* ------------------------------------------------------------------------
\* Claims about judge_batch
\* ------------------------------------------------------------------------

\* the attempts of the judge call that failed with an error that is no
\* rate limit or overload, the one that reached the caller included
OtherFailures ==
    Cardinality({i \in 1..Len(jfailed) : ~_is_infinite_retry(jfailed[i].exc)})
        + (IF jpc = "raised" THEN 1 ELSE 0)

\* C19 (as claimed): an exception judge_batch hands to its caller is no
\* rate-limit or overload error, and it is handed over after 3 attempts:
\* the call made 3 attempts in all, or 3 of its attempts failed with
\* errors of the other kind.
C19_TwoRegimes ==
    jpc = "raised" =>
        /\ ~_is_infinite_retry(jexc)
        /\ jattempt = JUDGE_STOP_AFTER \/ OtherFailures = JUDGE_STOP_AFTER

\* a well-formed entry: a mapping with an "ok" field
WellFormedVerdict(v) == v.kind = "dict" /\ "ok" \in v.fields

\* C20: the list judge_batch returns has one verdict per pair, in the order
\* of the array the service sent: a well-formed entry as it was sent, and
\* in the place of an entry that is no mapping or lacks "ok" a rejection
\* with a feedback string; every verdict is a mapping with an "ok" field.
C20_OneVerdictPerPair ==
    jpc = "returned" =>
        /\ Len(jverdicts) = Len(jpairs)
        /\ Len(jresponse) = Len(jpairs)
        /\ \A i \in 1..Len(jverdicts) :
              /\ WellFormedVerdict(jverdicts[i])
              /\ WellFormedVerdict(jresponse[i]) => jverdicts[i] = jresponse[i]
              /\ ~WellFormedVerdict(jresponse[i]) =>
                    /\ jverdicts[i].ok = "false"
                    /\ "feedback" \in jverdicts[i].fields
                    /\ jverdicts[i].feedback # ""

\* C20 witness: after a failed attempt the service sent a string and a
\* well-formed verdict for two pairs; the call returned a rejection in the
\* first place and the verdict in the second.
C20_Witness ==
    /\ jpc = "returned"
    /\ jattempt = 2
    /\ jresponse = <<VerdictNoDict, VerdictOk>>
    /\ jverdicts = <<MalformedVerdict, VerdictOk>>

\* ------------------------------------------------------------------------
\* Claims about translate_batch called on its own
\* ------------------------------------------------------------------------

\* C21: translate_batch called with an empty list makes no request to the
\* service, sleeps for no retry, constructs no client and raises nothing,
\* the API key set or not; once it has returned, what it returned is the
\* empty list, from its first attempt.
C21_EmptyListNoCall ==
    (btexts = <<>> /\ bpc # "idle") =>
        /\ bpc \in {"call", "returned"}
        /\ blog = <<>>
        /\ ~bclient
        /\ battempt = 1
        /\ bvalue = <<>>

\* C21 witness: the call with the empty list has returned, with no API key
\* in the environment.
C21_Witness ==
    /\ bpc = "returned"
    /\ btexts = <<>>
    /\ ~bkey
    /\ bvalue = <<>>
    /\ blog = <<>>

\* ------------------------------------------------------------------------
\* Claims about translate_records
\* ------------------------------------------------------------------------

\* the addresses in record obj that path expr resolves to a non-empty string
MatchesIn(obj, expr) ==
    {a \in Candidates(ParsePath(expr), Width(obj)) :
        Follow(obj, a).t = "str" /\ Follow(obj, a).s # ""}

\* task collection ends with no task: no configured path matches a
\* non-empty string in any record, or with no path configured every record
\* is a mapping with no non-empty string reachable through mappings
NoTaskToCollect ==
    IF Len(fields) = 0
    THEN \A r \in 1..Len(records) :
            records[r].t = "dict" /\ StringLeaves(records[r], <<>>) = {}
    ELSE \A r \in 1..Len(records) : \A p \in 1..Len(fields) :
            MatchesIn(records[r], fields[p]) = {}

FileBatches == Batches(TextsOnly(tasks), batch_size)

\* the texts of the batches before batch k, in batch order
TextsBefore(k) == Flatten(SubSeq(FileBatches, 1, k - 1))

\* sequence a is the beginning of sequence b
IsPrefix(a, b) == Len(a) <= Len(b) /\ SubSeq(b, 1, Len(a)) = a

\* while the call for batch bi is under way, every request of the call is
\* for that batch, the batches answered are exactly those before it, in
\* order, and one translation is held for each of their texts
OneCallInFlight ==
    pc = "batch" =>
        /\ bi \in 1..Len(FileBatches)
        /\ \A i \in CallsIn(batchLog) : batchLog[i].texts = FileBatches[bi]
        /\ Cardinality(WaitsIn(batchLog)) = attempt - 1
        /\ sent = TextsBefore(bi)
        /\ Len(all_translations) = Len(sent)

\* a step of the batch loop: a retry stays with the batch and leaves the
\* translations alone; a return appends one translation per text of the
\* batch and moves to the next batch; a final failure ends the loop
BatchStep ==
    pc = "batch" =>
        \/ /\ pc' = "batch" /\ bi' = bi
           /\ attempt' = attempt + 1
           /\ IsPrefix(batchLog, batchLog')
           /\ all_translations' = all_translations
           /\ sent' = sent
        \/ /\ pc' \in {"batch", "writeback", "write"} /\ bi' = bi + 1
           /\ attempt' = 1 /\ batchLog' = <<>>
           /\ IsPrefix(all_translations, all_translations')
           /\ Len(all_translations') =
                  Len(all_translations) + Len(FileBatches[bi])
           /\ \A j \in 1..Len(FileBatches[bi]) :
                  all_translations'[Len(all_translations) + j]
                      \in {FileBatches[bi][j], "T", Num.s}
           /\ sent' = sent \o FileBatches[bi]
           /\ (pc' = "batch") = (bi < Len(FileBatches))
        \/ /\ pc' = "aborted" /\ bi' = bi
           /\ attempt = MAX_ATTEMPTS
           /\ all_translations' = all_translations
           /\ sent' = sent

\* C23: the batches are translated one after the other, one call at a
\* time: every request made while batch k is under way, retries and
\* sleeps included, is for batch k; the call for batch k + 1 starts only
\* when the call for batch k has returned; and the list of translations
\* only grows at its end, by the translations of each batch in batch
\* order.
C23_SequentialBatches == []OneCallInFlight /\ [][BatchStep]_vars

\* C23 witness: the first batch has returned its translation and the
\* second batch is being retried after a sleep.
C23_Witness ==
    /\ pc = "batch"
    /\ bi = 2
    /\ attempt = 3
    /\ Len(all_translations) = 1
    /\ sent = FileBatches[1]
    /\ FileBatches[2] # FileBatches[1]
    /\ CallsIn(batchLog) # {}
    /\ \A i \in CallsIn(batchLog) : batchLog[i].texts = FileBatches[2]

\* the batches are slices of texts that follow one another and cover it,
\* each of 1 to size texts, each but the last of exactly size texts
PartitionsInto(batches, texts, size) ==
    /\ Flatten(batches) = texts
    /\ \A k \in 1..Len(batches) :
          /\ Len(batches[k]) >= 1
          /\ Len(batches[k]) <= size
          /\ k < Len(batches) => Len(batches[k]) = size
          /\ batches[k] = SubSeq(texts, Len(Flatten(SubSeq(batches, 1, k - 1))) + 1,
                                 Len(Flatten(SubSeq(batches, 1, k))))

\* C24 (as claimed): whatever batch size is configured, with at least one
\* task the batches are built without an error, they partition the task
\* texts into consecutive slices of batch-size texts (the last one may be
\* shorter, none is empty), and once the batch loop is over the texts sent
\* are the task texts in order.
C24_BatchesPartition ==
    /\ exc # "ValueError: range() step"
    /\ InTranslate =>
          /\ PartitionsInto(FileBatches, TextsOnly(tasks), batch_size)
          /\ pc \in {"writeback", "write"} => sent = TextsOnly(tasks)

\* the tasks of record r (1-based) at address a
TasksAt(r, a) ==
    {k \in 1..Len(tasks) : tasks[k].rec = r - 1 /\ tasks[k].addr = a}

\* the configured paths that reach address a in record r
PathsReaching(r, a) ==
    {p \in 1..Len(fields) : a \in MatchesIn(records[r], fields[p])}

\* the addresses of record r reached by a configured path
AddrsReached(r) ==
    UNION {MatchesIn(records[r], fields[p]) : p \in 1..Len(fields)}

\* C25: with configured paths, an address of a record has one task per
\* configured path that reaches it, so two for two overlapping paths; each
\* of these tasks carries the text of the input record at that address, and
\* that text is what is sent for each of them, whatever translation an
\* earlier one received; once every task is written, the address holds the
\* translation of the last of them.
C25_SecondWriteWins ==
    (InTranslate /\ Len(fields) > 0) =>
        \A r \in 1..Len(records) : \A a \in AddrsReached(r) :
            /\ Cardinality(TasksAt(r, a)) = Cardinality(PathsReaching(r, a))
            /\ \A k \in TasksAt(r, a) :
                  /\ tasks[k].text = Follow(records[r], a).s
                  /\ k <= Len(sent) => sent[k] = Follow(records[r], a).s
            /\ (pc = "write" /\ wi = Len(tasks) + 1) =>
                  \A k \in TasksAt(r, a) :
                      (\A j \in TasksAt(r, a) : j <= k) =>
                          Follow(translated_records[r], a) =
                              Str(all_translations[k])

\* C25 witness: the path "a" configured twice on a record {"a": "x"}; two
\* tasks at the one address, "x" sent twice, the first answered "T" and the
\* second "x", and the output holds "x".
C25_Witness ==
    /\ pc = "write"
    /\ fields = <<KA, KA>>
    /\ Len(tasks) = 2
    /\ tasks[1].rec = tasks[2].rec /\ tasks[1].addr = tasks[2].addr
    /\ wi = 3
    /\ sent = <<"x", "x">>
    /\ all_translations = <<"T", "x">>
    /\ Follow(translated_records[tasks[2].rec + 1], tasks[2].addr) = Str("x")
    /\ Follow(records[tasks[2].rec + 1], tasks[2].addr) = Str("x")

\* every record of the file is a mapping or a sequence
CompositeRecords ==
    \A r \in 1..Len(records) : records[r].t \in {"dict", "list"}

\* C26 (as claimed): with a batch size of at least 1, once every
\* translate_batch call has returned there is one translation per task,
\* write-back never ends in a key or index error, tasks that share an
\* address included, and when translate_records returns every task has
\* been written once.
C26_WriteBackTotal ==
    batch_size >= 1 =>
        /\ exc \notin {"KeyError", "IndexError"}
        /\ (InTranslate /\ pc \in {"writeback", "write"}) =>
              Len(all_translations) = Len(tasks)
        /\ (InTranslate /\ pc = "write") => wi = Len(tasks) + 1

=============================================================================
